---- MODULE Spec2Model ----
(***************************************************************************)
(* The Thing CRUD service of container/src/main.py: five request handlers  *)
(* over one SQLite table, each running in its own SQLAlchemy session.      *)
(*                                                                         *)
(* A handler is an asyncio task; it is suspended only at its awaits, so    *)
(* each action below is the code between two awaits together with the      *)
(* database call awaited.  The session's reads run outside a transaction   *)
(* (the sqlite3 driver begins one only before INSERT/UPDATE/DELETE) and    *)
(* one flush+COMMIT holds SQLite's file lock, so a commit is one step.      *)
(*                                                                         *)
(* Optional values (Python None or a value) are sets with at most one      *)
(* element: {} is None.                                                    *)
(***************************************************************************)
EXTENDS Integers, Sequences, FiniteSets, TLC

\* Largest rowid the model lets the table reach.
MaxId == 2

\* Request tasks that can be in flight at once.
Reqs == {"r1", "r2"}

\* Values of the text column.
Texts == {"a", "b"}

Ids == 1..MaxId

Digits == <<"0", "1", "2", "3", "4", "5", "6", "7", "8", "9">>

Chr(i) == Digits[i + 1]

\* The {id} path parameter is declared str: a sequence of characters.
PathIds == {<<Chr(i)>> : i \in Ids} \cup {<<"0", "1">>, <<"x">>}

\* Request bodies: ThingModel(id: Optional[int], text: str).
Bodies == [id : {{}, {1}}, text : Texts]

VARIABLES
    phase,      \* "boot" until the startup handler has run, then "serving"
    db,         \* the database file: [exists |-> the thing table exists, rows |-> its rows]
    req,        \* per request task: position, inputs, loaded object, response
                \* (body: the ThingModel post_thing received; text: new_thing.text,
                \* the one field of its body put_thing reads after its await)
    sessOpen,   \* per request task: its AsyncSession is open
    created,    \* history: ids assigned by INSERT since startup
    posted,     \* history: per id, the text of the POST that created its row
    touched,    \* history: ids a PUT or DELETE has acted on since their POST
    gone,       \* history: ids removed by a committed DELETE and not created again
    anyDelete,  \* history: some DELETE has reached its commit since startup
    hadPrior,   \* history: the file held rows when the process started
    recording   \* whether this behaviour keeps the history variables

vars == <<phase, db, req, sessOpen, created, posted, touched, gone, anyDelete,
          hadPrior, recording>>

hist == <<created, posted, touched, gone, anyDelete, hadPrior, recording>>

IdleReq ==
    [pc |-> "idle", kind |-> "", pid |-> <<>>, body |-> {}, text |-> {}, obj |-> {},
     resp |-> <<>>, outcome |-> ""]

\* No task occupies slot r: a new request can be accepted there.
Free(r) == req[r].pc \in {"idle", "done"}

RowIds(rs) == {x.id : x \in rs}

Max(S) == CHOOSE m \in S : \A n \in S : n <= m

----------------------------------------------------------------------------
(* The storage layer *)

\* Variant: the table is not dropped.
drop_all_skipped(d) == d

\* Base.metadata.drop_all: DROP TABLE thing, when it exists.
drop_all(d) == [exists |-> FALSE, rows |-> {}]

\* Base.metadata.create_all: CREATE TABLE thing, unless it exists.
create_all(d) == IF d.exists THEN d ELSE [exists |-> TRUE, rows |-> {}]

\* create_db_and_tables: both statements in one engine.begin() transaction.
create_db_and_tables(d) == create_all(drop_all(d))

\* Variant: the new rowid is the number of rows plus one.
RowidByCount(rs) == Cardinality(rs) + 1

\* Variant: the new rowid is the smallest one no row has.
RowidFirstFree(rs) == CHOOSE i \in 1..(Cardinality(rs) + 1) :
    /\ i \notin RowIds(rs)
    /\ \A j \in 1..(i - 1) : j \in RowIds(rs)

\* id = Column(Integer, primary_key=True) is an alias of SQLite's rowid
\* without AUTOINCREMENT: an INSERT without id gets the largest rowid in the
\* table plus one, 1 in an empty table.
NextRowid(rs) == IF rs = {} THEN 1 ELSE Max(RowIds(rs)) + 1

IsDigit(c) == \E i \in 1..Len(Digits) : Digits[i] = c

DigitVal(c) == (CHOOSE i \in 1..Len(Digits) : Digits[i] = c) - 1

RECURSIVE DecimalValue(_)
DecimalValue(s) ==
    IF s = <<>> THEN 0
    ELSE 10 * DecimalValue(SubSeq(s, 1, Len(s) - 1)) + DigitVal(s[Len(s)])

\* Variant: the text operand is compared as text and equals no rowid.
NoAffinity(s) == {}

\* session.get(Thing, id) binds the str path parameter to thing.id = ?; SQLite
\* applies the column's INTEGER affinity to the text operand: a well-formed
\* integer literal becomes that integer, any other text equals no rowid.
NumericAffinity(s) ==
    IF s # <<>> /\ \A k \in 1..Len(s) : IsDigit(s[k]) THEN {DecimalValue(s)} ELSE {}

\* SELECT ... FROM thing WHERE thing.id = ?
SelectById(rs, pid) == {x \in rs : x.id \in NumericAffinity(pid)}

\* ThingModel(id=thing.id, text=thing.text)
ThingModelOf(x) == [id |-> {x.id}, text |-> x.text]

RECURSIVE RowsInOrder(_)
RowsInOrder(rs) ==
    IF rs = {} THEN <<>>
    ELSE LET m == CHOOSE x \in rs : \A y \in rs : y.id <= x.id
         IN Append(RowsInOrder(rs \ {m}), m)

\* Variant: the last of several rows is left out.
SelectAllButLast(rs) ==
    LET s == RowsInOrder(rs)
    IN [k \in 1..(IF Len(s) > 1 THEN Len(s) - 1 ELSE Len(s)) |-> ThingModelOf(s[k])]

\* get_things: select(Thing), every row (in rowid order) as a ThingModel.
SelectAll(rs) ==
    LET s == RowsInOrder(rs) IN [k \in 1..Len(s) |-> ThingModelOf(s[k])]

\* get_thing: the ThingModel of the row, or nothing (the handler falls off
\* its end and the response is null).
GetResponse(rs, pid) ==
    LET got == SelectById(rs, pid)
    IN IF got # {} THEN <<ThingModelOf(CHOOSE x \in got : TRUE)>> ELSE <<>>

\* session.add(Thing(text=thing.text)); flush: INSERT INTO thing (text) VALUES (?)
\* The body's id is not passed on.
NewThing(rs, body) == [id |-> NextRowid(rs), text |-> body.text]

FlushInsert(rs, body) == rs \cup {NewThing(rs, body)}

\* Variant: an UPDATE without its WHERE clause.
FlushUpdateNoWhere(rs, o, text) == {[id |-> x.id, text |-> text] : x \in rs}

\* Variant: the row is written whether or not it still exists.
FlushUpdateUpsert(rs, o, text) ==
    {x \in rs : x.id # o.id} \cup {[id |-> o.id, text |-> text]}

\* flush of a dirty Thing: UPDATE thing SET text=? WHERE thing.id = ?
FlushUpdate(rs, o, text) ==
    {IF x.id = o.id THEN [id |-> x.id, text |-> text] ELSE x : x \in rs}

\* Variant: the DELETE is never flushed.
FlushDeleteNothing(rs, o) == rs

\* flush of a deleted Thing: DELETE FROM thing WHERE thing.id = ?
FlushDelete(rs, o) == {x \in rs : x.id # o.id}

\* Rows an UPDATE ... WHERE thing.id = ? matches.
UpdateRowcount(rs, o) == Cardinality({x \in rs : x.id = o.id})

\* Variant: a PUT on a missing id is skipped without an error.
PutThingSilent(rs, got, text) ==
    IF got = {} THEN [rows |-> rs, outcome |-> "ok"]
    ELSE LET o == CHOOSE x \in got : TRUE
         IN IF text = o.text THEN [rows |-> rs, outcome |-> "ok"]
            ELSE IF UpdateRowcount(rs, o) # 1
                 THEN [rows |-> rs, outcome |-> "StaleDataError"]
                 ELSE [rows |-> FlushUpdate(rs, o, text), outcome |-> "ok"]

\* Variant: the PUT's flush writes the row back when it is gone.
PutThingUpsert(rs, got, text) ==
    IF got = {} THEN [rows |-> rs, outcome |-> "AttributeError"]
    ELSE LET o == CHOOSE x \in got : TRUE
         IN IF text = o.text THEN [rows |-> rs, outcome |-> "ok"]
            ELSE [rows |-> FlushUpdateUpsert(rs, o, text), outcome |-> "ok"]

\* put_thing after session.get, on the table as it is at the commit:
\* thing.text = new_thing.text raises AttributeError when thing is None; an
\* attribute set to the value it was loaded with emits no UPDATE; an UPDATE
\* that does not match exactly one row raises StaleDataError and the
\* transaction is rolled back.
PutThing(rs, got, text) ==
    IF got = {} THEN [rows |-> rs, outcome |-> "AttributeError"]
    ELSE LET o == CHOOSE x \in got : TRUE
         IN IF text = o.text THEN [rows |-> rs, outcome |-> "ok"]
            ELSE IF UpdateRowcount(rs, o) # 1
                 THEN [rows |-> rs, outcome |-> "StaleDataError"]
                 ELSE [rows |-> FlushUpdate(rs, o, text), outcome |-> "ok"]

\* delete_thing after session.get, on the table as it is at the commit:
\* session.delete(None) raises UnmappedInstanceError; a DELETE that matches
\* no row only warns.
DeleteThing(rs, got) ==
    IF got = {} THEN [rows |-> rs, outcome |-> "UnmappedInstanceError"]
    ELSE [rows |-> FlushDelete(rs, CHOOSE x \in got : TRUE), outcome |-> "ok"]

\* Variant: the session is closed only when the handler returns normally.
SessionLeakOnError(outcome) == outcome # "ok"

\* get_async_session: "async with async_session_maker() as session" closes
\* the session when the handler returns and when it raises.
SessionOpenAfterExit(outcome) == FALSE

----------------------------------------------------------------------------
(* Initial state: the module has been imported, the engine created; the     *)
(* database file holds whatever an earlier run left.                        *)

PriorRows == {rs \in SUBSET [id : Ids, text : Texts] :
                \A x, y \in rs : x.id = y.id => x = y}

Boot(rec) ==
    /\ phase = "boot"
    /\ recording = rec
    /\ \E e \in BOOLEAN : \E rs \in PriorRows :
          /\ (~e => rs = {})
          /\ db = [exists |-> e, rows |-> rs]
          /\ hadPrior = (rec /\ rs # {})
    /\ req = [r \in Reqs |-> IdleReq]
    /\ sessOpen = [r \in Reqs |-> FALSE]
    /\ created = {}
    /\ posted = [i \in Ids |-> {}]
    /\ touched = {}
    /\ gone = {}
    /\ anyDelete = FALSE

Init == Boot(TRUE)

\* History kept for a POST that created row new.
RecordPost(new) ==
    IF recording
    THEN /\ created' = created \cup {new.id}
         /\ posted' = [posted EXCEPT ![new.id] = {new.text}]
         /\ touched' = touched \ {new.id}
         /\ gone' = gone \ {new.id}
         /\ hadPrior' = FALSE
         /\ UNCHANGED <<anyDelete, recording>>
    ELSE UNCHANGED hist

\* History kept for a DELETE that committed with the loaded objects got.  The
\* posted text of a row is kept while no PUT or DELETE has acted on the row
\* or no DELETE has happened at all.
RecordDelete(got) ==
    IF recording /\ got # {}
    THEN LET o == CHOOSE x \in got : TRUE IN
         /\ touched' = touched \cup {o.id}
         /\ gone' = gone \cup {o.id}
         /\ posted' = [i \in Ids |-> IF i \in touched \cup {o.id} THEN {} ELSE posted[i]]
         /\ anyDelete' = TRUE
         /\ UNCHANGED <<created, hadPrior, recording>>
    ELSE UNCHANGED hist

\* History kept for a PUT that committed with outcome out.
RecordPut(got, out) ==
    IF recording /\ got # {} /\ out = "ok"
    THEN LET o == CHOOSE x \in got : TRUE IN
         /\ touched' = touched \cup {o.id}
         /\ posted' = IF anyDelete THEN [posted EXCEPT ![o.id] = {}] ELSE posted
         /\ UNCHANGED <<created, gone, anyDelete, hadPrior, recording>>
    ELSE UNCHANGED hist

\* on_startup: runs to completion before any request is served.
on_startup ==
    /\ phase = "boot"
    /\ phase' = "serving"
    /\ db' = create_db_and_tables(db)
    /\ UNCHANGED <<req, sessOpen, hist>>

\* GET /things
get_things(r) ==
    /\ phase = "serving"
    /\ Free(r)
    /\ sessOpen' = [sessOpen EXCEPT ![r] = TRUE]
    /\ req' = [req EXCEPT ![r] = [IdleReq EXCEPT !.pc = "returned", !.kind = "list",
                                    !.resp = SelectAll(db.rows), !.outcome = "ok"]]
    /\ UNCHANGED <<phase, db, hist>>

\* GET /things/{id}
get_thing(r, pid) ==
    /\ phase = "serving"
    /\ Free(r)
    /\ sessOpen' = [sessOpen EXCEPT ![r] = TRUE]
    /\ req' = [req EXCEPT ![r] = [IdleReq EXCEPT !.pc = "returned", !.kind = "get",
                                    !.pid = pid, !.resp = GetResponse(db.rows, pid),
                                    !.outcome = "ok"]]
    /\ UNCHANGED <<phase, db, hist>>

\* POST /things
post_thing(r, body) ==
    /\ phase = "serving"
    /\ Free(r)
    /\ NextRowid(db.rows) <= MaxId
    /\ LET new == NewThing(db.rows, body) IN
          /\ db' = [db EXCEPT !.rows = FlushInsert(db.rows, body)]
          /\ sessOpen' = [sessOpen EXCEPT ![r] = TRUE]
          /\ req' = [req EXCEPT ![r] = [IdleReq EXCEPT !.pc = "returned", !.kind = "post",
                                          !.body = {body}, !.obj = {new}, !.outcome = "ok"]]
          /\ RecordPost(new)
    /\ UNCHANGED phase

\* DELETE /things/{id}, up to the end of "await session.get(Thing, id)"
delete_thing_get(r, pid) ==
    /\ phase = "serving"
    /\ Free(r)
    /\ sessOpen' = [sessOpen EXCEPT ![r] = TRUE]
    /\ req' = [req EXCEPT ![r] = [IdleReq EXCEPT !.pc = "loaded", !.kind = "delete",
                                    !.pid = pid, !.obj = SelectById(db.rows, pid)]]
    /\ UNCHANGED <<phase, db, hist>>

\* DELETE /things/{id}: session.delete(thing) and session.commit()
delete_thing_commit(r) ==
    /\ req[r].pc = "loaded"
    /\ req[r].kind = "delete"
    /\ LET got == req[r].obj
           res == DeleteThing(db.rows, got)
       IN /\ req' = [req EXCEPT ![r].pc = "returned", ![r].obj = {},
                                ![r].outcome = res.outcome]
          /\ db' = [db EXCEPT !.rows = res.rows]
          /\ RecordDelete(got)
    /\ UNCHANGED <<phase, sessOpen>>

\* PUT /things/{id}, up to the end of "await session.get(Thing, id)"
put_thing_get(r, pid, body) ==
    /\ phase = "serving"
    /\ Free(r)
    /\ sessOpen' = [sessOpen EXCEPT ![r] = TRUE]
    /\ req' = [req EXCEPT ![r] = [IdleReq EXCEPT !.pc = "loaded", !.kind = "put",
                                    !.pid = pid, !.text = {body.text},
                                    !.obj = SelectById(db.rows, pid)]]
    /\ UNCHANGED <<phase, db, hist>>

\* PUT /things/{id}: thing.text = new_thing.text and session.commit()
put_thing_commit(r) ==
    /\ req[r].pc = "loaded"
    /\ req[r].kind = "put"
    /\ LET got == req[r].obj
           text == CHOOSE t \in req[r].text : TRUE
           res == PutThing(db.rows, got, text)
       IN /\ req' = [req EXCEPT ![r].pc = "returned", ![r].obj = {},
                                ![r].outcome = res.outcome]
          /\ db' = [db EXCEPT !.rows = res.rows]
          /\ RecordPut(got, res.outcome)
    /\ UNCHANGED <<phase, sessOpen>>

\* get_async_session after its yield: the session is closed and the task
\* ends; what stays of it is the response that was sent.
close_session(r) ==
    /\ req[r].pc = "returned"
    /\ sessOpen' = [sessOpen EXCEPT ![r] = SessionOpenAfterExit(req[r].outcome)]
    /\ req' = [req EXCEPT ![r] = [IdleReq EXCEPT !.pc = "done", !.outcome = req[r].outcome]]
    /\ UNCHANGED <<phase, db, hist>>

\* The steps of a request that has been accepted.
Continue(r) ==
    \/ delete_thing_commit(r)
    \/ put_thing_commit(r)
    \/ close_session(r)

Next ==
    \/ on_startup
    \/ \E r \in Reqs : get_things(r)
    \/ \E r \in Reqs : \E pid \in PathIds : get_thing(r, pid)
    \/ \E r \in Reqs : \E body \in Bodies : post_thing(r, body)
    \/ \E r \in Reqs : \E pid \in PathIds : delete_thing_get(r, pid)
    \/ \E r \in Reqs : delete_thing_commit(r)
    \/ \E r \in Reqs : \E pid \in PathIds : \E body \in Bodies : put_thing_get(r, pid, body)
    \/ \E r \in Reqs : put_thing_commit(r)
    \/ \E r \in Reqs : close_session(r)

Spec == Init /\ [][Next]_vars

\* The event loop runs every task that is ready, and the database calls return.
\* The same program, its history variables left unrecorded.
FairInit == Boot(FALSE)

FairSpec == FairInit /\ [][Next]_vars /\ \A r \in Reqs : WF_vars(Continue(r))

----------------------------------------------------------------------------
(* Steps of the handlers, as the properties below refer to them *)

Accepted(r, kind) == Free(r) /\ req'[r].pc # req[r].pc /\ req'[r].kind = kind

Committed(r, kind) ==
    req[r].kind = kind /\ req[r].pc = "loaded" /\ req'[r].pc = "returned"

Loaded(r) == CHOOSE x \in req[r].obj : TRUE

OtherRows(rs, i) == {x \in rs : x.id # i}

UniqueIds(rs) == \A x, y \in rs : x.id = y.id => x = y

----------------------------------------------------------------------------
(* C1 *)

\* C1: a GET /things/{id} made with the decimal id a POST assigned, with no
\* PUT or DELETE on that id since the POST, returns exactly {id, text posted}.
RoundTrip ==
    [][\A r \in Reqs : Accepted(r, "get") =>
          \A i \in Ids : \A t \in posted[i] :
             (req'[r].pid = <<Chr(i)>> /\ i \notin touched)
                => req'[r].resp = <<[id |-> {i}, text |-> t]>>]_vars

RoundTripWitness ==
    \E r \in Reqs : \E i \in Ids : \E t \in posted[i] :
       /\ req[r].kind = "get" /\ req[r].pc = "returned"
       /\ req[r].pid = <<Chr(i)>> /\ i \notin touched
       /\ req[r].resp = <<[id |-> {i}, text |-> t]>>

----------------------------------------------------------------------------
(* C2 *)

\* The list holds exactly one entry per id created since startup.
OnePerPost(resp) ==
    /\ Len(resp) = Cardinality(created)
    /\ \A i \in created : Cardinality({k \in 1..Len(resp) : resp[k].id = {i}}) = 1

CarriesPostedText(resp, ids) ==
    \A i \in ids : \E t \in posted[i] : \E k \in 1..Len(resp) :
       resp[k] = [id |-> {i}, text |-> t]

\* C2 as stated: after N POSTs and no DELETE since startup, GET /things
\* returns N entries, one per POST, each with the text that was posted.
ListReflectsInserts ==
    [][\A r \in Reqs : (Accepted(r, "list") /\ ~anyDelete) =>
          /\ OnePerPost(req'[r].resp)
          /\ CarriesPostedText(req'[r].resp, created)]_vars

\* C2 as amended: after N POSTs and no DELETE since startup, GET /things
\* returns N entries, one per POST; an entry carries the text that was
\* posted when no PUT has acted on its id.
ListReflectsInsertsUntouched ==
    [][\A r \in Reqs : (Accepted(r, "list") /\ ~anyDelete) =>
          /\ OnePerPost(req'[r].resp)
          /\ CarriesPostedText(req'[r].resp, created \ touched)]_vars

ListReflectsInsertsWitness ==
    \E r \in Reqs :
       /\ req[r].kind = "list" /\ req[r].pc = "returned"
       /\ ~anyDelete /\ touched = {}
       /\ Cardinality(created) = MaxId
       /\ OnePerPost(req[r].resp)
       /\ CarriesPostedText(req[r].resp, created)

----------------------------------------------------------------------------
(* C3 *)

\* What a GET of the PUT's path id returns right after the PUT, and the rows
\* the PUT was not aimed at.
PutVisible(r) ==
    /\ GetResponse(db'.rows, req[r].pid)
          = <<[id |-> {Loaded(r).id}, text |-> CHOOSE t \in req[r].text : TRUE]>>
    /\ OtherRows(db'.rows, Loaded(r).id) = OtherRows(db.rows, Loaded(r).id)

\* C3 as stated: after a successful PUT of text x on an id that existed, a
\* following GET returns x under the same id and no other row has changed.
UpdateChangesText ==
    [][\A r \in Reqs :
          (Committed(r, "put") /\ req'[r].outcome = "ok") => PutVisible(r)]_vars

\* C3 as amended: the same, for a PUT whose text differs from the text its
\* session.get loaded, or whose row is at its commit still as it was loaded.
UpdateChangesTextUnlessStale ==
    [][\A r \in Reqs :
          (/\ Committed(r, "put") /\ req'[r].outcome = "ok"
           /\ (req[r].text # {Loaded(r).text} \/ Loaded(r) \in db.rows))
             => PutVisible(r)]_vars

UpdateChangesTextWitness ==
    \E r \in Reqs : \E i \in Ids : \E t \in req[r].text :
       /\ req[r].kind = "put" /\ req[r].pc = "returned" /\ req[r].outcome = "ok"
       /\ NumericAffinity(req[r].pid) = {i}
       /\ [id |-> i, text |-> t] \in db.rows
       /\ i \in touched /\ posted[i] # {} /\ posted[i] # {t}
       /\ \E x \in db.rows : x.id # i /\ x.text # t

----------------------------------------------------------------------------
(* C4 *)

\* C4: after a successful DELETE on an id that existed, GET of that id
\* returns nothing, GET /things has no entry with that id, and the other
\* rows are as before.
DeleteRemoves ==
    [][\A r \in Reqs :
          (Committed(r, "delete") /\ req'[r].outcome = "ok") =>
             /\ GetResponse(db'.rows, req[r].pid) = <<>>
             /\ \A k \in 1..Len(SelectAll(db'.rows)) :
                   SelectAll(db'.rows)[k].id # {Loaded(r).id}
             /\ OtherRows(db'.rows, Loaded(r).id) = OtherRows(db.rows, Loaded(r).id)]_vars

DeleteRemovesWitness ==
    \E r \in Reqs : \E i \in Ids :
       /\ req[r].kind = "delete" /\ req[r].pc = "returned" /\ req[r].outcome = "ok"
       /\ NumericAffinity(req[r].pid) = {i}
       /\ i \in gone /\ i \notin RowIds(db.rows)
       /\ db.rows # {}

----------------------------------------------------------------------------
(* C5 *)

\* C5: a PUT or DELETE whose session.get found no row ends in an error and
\* leaves the table as it was.
MissingIdFails ==
    [][\A r \in Reqs :
          ((Committed(r, "put") \/ Committed(r, "delete")) /\ req[r].obj = {}) =>
             /\ req'[r].outcome \in {"AttributeError", "UnmappedInstanceError"}
             /\ db' = db]_vars

MissingIdFailsWitness ==
    \E r, q \in Reqs :
       /\ req[r].kind = "put" /\ req[r].outcome = "AttributeError"
       /\ req[q].kind = "delete" /\ req[q].outcome = "UnmappedInstanceError"
       /\ db.rows # {}

----------------------------------------------------------------------------
(* C6 *)

\* C6: once the startup handler has run, and until the first POST, the thing
\* table exists and is empty and GET /things returns an empty array,
\* whatever the file held before.
StartupEmpties ==
    /\ [](phase = "serving" /\ created = {} => db.exists /\ db.rows = {})
    /\ [][\A r \in Reqs : (Accepted(r, "list") /\ created = {}) =>
             req'[r].resp = <<>>]_vars

StartupEmptiesWitness ==
    \E r \in Reqs :
       /\ hadPrior /\ phase = "serving"
       /\ req[r].kind = "list" /\ req[r].pc = "returned" /\ req[r].resp = <<>>

----------------------------------------------------------------------------
(* C7 *)

\* C7: no two rows share an id, and a POST (whatever id its body carries)
\* succeeds, keeps every row there was and stores its text under an id no
\* row had.
IdsUnique ==
    /\ [](UniqueIds(db.rows))
    /\ [][\A r \in Reqs : Accepted(r, "post") =>
             /\ req'[r].outcome = "ok"
             /\ db.rows \subseteq db'.rows
             /\ \E n \in req'[r].obj : \E b \in req'[r].body :
                   /\ n.id \notin RowIds(db.rows)
                   /\ n.text = b.text
                   /\ db'.rows = db.rows \cup {n}]_vars

IdsUniqueWitness ==
    \E r \in Reqs : \E n \in req[r].obj : \E b \in req[r].body :
       /\ req[r].kind = "post" /\ req[r].pc = "returned" /\ req[r].outcome = "ok"
       /\ b.id = {1} /\ n.id # 1 /\ n \in db.rows
       /\ \E x \in db.rows : x.id = 1 /\ x.text # b.text

----------------------------------------------------------------------------
(* C8 *)

ErrorOutcomes == {"AttributeError", "UnmappedInstanceError", "StaleDataError"}

\* C8: a request's session is open exactly while its handler is running or
\* has just exited, every open session is eventually closed, and a step that
\* ends a handler in an error changes nothing in the table.
SessionScoped ==
    /\ \A r \in Reqs : sessOpen[r] ~> ~sessOpen[r]
    /\ [](\A r \in Reqs : sessOpen[r] <=> req[r].pc \in {"loaded", "returned"})
    /\ [][\A r \in Reqs :
             (req[r].pc = "loaded" /\ req'[r].outcome \in ErrorOutcomes) => db' = db]_vars

SessionScopedWitness ==
    \E r \in Reqs :
       /\ req[r].pc = "done" /\ req[r].outcome \in ErrorOutcomes
       /\ ~sessOpen[r]

----------------------------------------------------------------------------
(* C9 *)

\* C9: an id a DELETE has committed the removal of has no row, and GET of it
\* returns nothing, until a POST creates a row; no commit of a PUT brings
\* the row back.
DeletedStaysDeleted ==
    \A i \in gone :
       /\ i \notin RowIds(db.rows)
       /\ GetResponse(db.rows, <<Chr(i)>>) = <<>>

DeletedStaysDeletedWitness ==
    \E r \in Reqs : \E i \in gone :
       /\ req[r].kind = "put" /\ req[r].pc = "returned"
       /\ req[r].outcome = "StaleDataError"
       /\ NumericAffinity(req[r].pid) = {i}

----------------------------------------------------------------------------
(* C10 *)

\* C10 as stated: the id a POST assigns is none of the ids assigned earlier
\* in this run, deleted ones included.
IdsNeverReused ==
    [][\A r \in Reqs : Accepted(r, "post") =>
          \A n \in req'[r].obj : n.id \notin created]_vars

\* C10 as amended: the id a POST assigns is larger than the id of every row
\* in the table at that moment (so it is the id of no stored Thing; the id of
\* a deleted Thing is assigned again once no row with that or a larger id is
\* left).
IdsAboveStored ==
    [][\A r \in Reqs : Accepted(r, "post") =>
          \A n \in req'[r].obj : \A x \in db.rows : n.id > x.id]_vars

IdsAboveStoredWitness ==
    \E r \in Reqs : \E n \in req[r].obj :
       /\ req[r].kind = "post" /\ req[r].pc = "returned"
       /\ anyDelete /\ created = Ids
       /\ n.id = 1 /\ db.rows = {n}

====
